---- MODULE Spec2Model ----
(***************************************************************************)
(* A model of xxhash32-ref.c: the one-shot reference XXH32 and its         *)
(* self-test driver.                                                       *)
(*                                                                         *)
(* A uint32_t is the pair <<hi, lo>> of its two 16-bit halves, so that     *)
(* every operation is carried out modulo 2^32 with no intermediate value   *)
(* above 2^31.  A size_t (length, offset, remaining) is a plain integer:   *)
(* the model's lengths stay far below the width of size_t.                 *)
(***************************************************************************)
EXTENDS Integers, Sequences, FiniteSets

VARIABLES
    mem,      \* caller memory: buffer id -> sequence of bytes
    frames,   \* thread -> the activation record of its XXH32 call
    main,     \* the self-test driver's locals (NoMain when not compiled in)
    noted     \* ghost: one completed call, remembered to compare later ones

vars == <<mem, frames, main, noted>>

----------------------------------------------------------------------------
(* 32-bit unsigned arithmetic on <<hi, lo>>                                *)

Half == 2^16

Hi(w) == w[1]
Lo(w) == w[2]

\* (uint32_t) n for a non-negative integer n: the low 32 bits.
U32(n) == <<(n \div Half) % Half, n % Half>>

ZERO32 == <<0, 0>>

\* uint32_t a + b
Add32(a, b) ==
    LET lo == Lo(a) + Lo(b)
        hi == Hi(a) + Hi(b) + (lo \div Half)
    IN  <<hi % Half, lo % Half>>

\* uint32_t a - b
Sub32(a, b) ==
    LET borrow == IF Lo(a) < Lo(b) THEN 1 ELSE 0
        lo == Lo(a) + borrow * Half - Lo(b)
        hi == Hi(a) + Half - Hi(b) - borrow
    IN  <<hi % Half, lo>>

\* The full 32-bit product of two 16-bit numbers, as <<hi, lo>>.
Mul16(x, y) ==
    LET y0 == y % 256
        y1 == y \div 256
        a  == x * y0                      \* < 2^24
        b  == x * y1                      \* < 2^24, weighs 2^8
        t  == a + (b % 256) * 256         \* < 2^25
    IN  <<((t \div Half) + (b \div 256)) % Half, t % Half>>

\* uint32_t a * b
Mul32(a, b) ==
    LET ll == Mul16(Lo(a), Lo(b))
        hl == Mul16(Hi(a), Lo(b))
        lh == Mul16(Lo(a), Hi(b))
    IN  <<(Hi(ll) + Lo(hl) + Lo(lh)) % Half, Lo(ll)>>

\* uint32_t value << n, 0 < n < 32
Shl32(w, n) ==
    IF n >= 16
    THEN <<(Lo(w) % 2^(32 - n)) * 2^(n - 16), 0>>
    ELSE <<(Hi(w) % 2^(16 - n)) * 2^n + (Lo(w) \div 2^(16 - n)),
           (Lo(w) % 2^(16 - n)) * 2^n>>

\* uint32_t value >> n, 0 < n < 32
Shr32(w, n) ==
    IF n >= 16
    THEN <<0, Hi(w) \div 2^(n - 16)>>
    ELSE <<Hi(w) \div 2^n,
           (Hi(w) % 2^n) * 2^(16 - n) + (Lo(w) \div 2^n)>>

RECURSIVE BitOr(_, _, _), BitXor(_, _, _)
\* bitwise or / exclusive or of two numbers of k bits
BitOr(x, y, k) ==
    IF k = 0 THEN 0
    ELSE (IF x % 2 = 1 \/ y % 2 = 1 THEN 1 ELSE 0)
         + 2 * BitOr(x \div 2, y \div 2, k - 1)
BitXor(x, y, k) ==
    IF k = 0 THEN 0
    ELSE ((x + y) % 2) + 2 * BitXor(x \div 2, y \div 2, k - 1)

Or32(a, b)  == <<BitOr(Hi(a), Hi(b), 16), BitOr(Lo(a), Lo(b), 16)>>
Xor32(a, b) == <<BitXor(Hi(a), Hi(b), 16), BitXor(Lo(a), Lo(b), 16)>>

----------------------------------------------------------------------------
(* The constant pool                                                       *)

PRIME32_1 == <<40503, 31153>>   \* 0x9E3779B1
PRIME32_2 == <<34283, 51831>>   \* 0x85EBCA77
PRIME32_3 == <<49842, 44605>>   \* 0xC2B2AE3D
PRIME32_4 == <<10196, 60207>>   \* 0x27D4EB2F
PRIME32_5 == <<5718, 26545>>    \* 0x165667B1

----------------------------------------------------------------------------
(* The primitives                                                          *)

\* Rotates value left by amount.
XXH_rotl32(value, amount) ==
    Or32(Shl32(value, amount), Shr32(value, 32 - amount))

\* The byte p[offset] of a buffer (a sequence, so index offset + 1).
ByteAt(p, offset) == p[offset + 1]

\* The read with the bytes taken most significant first.
XXH_read32_BigEndian(p, offset) ==
    Or32(Or32(U32(ByteAt(p, offset + 3)),
              Shl32(U32(ByteAt(p, offset + 2)), 8)),
         Or32(Shl32(U32(ByteAt(p, offset + 1)), 16),
              Shl32(U32(ByteAt(p, offset + 0)), 24)))

\* Reads a 32-bit little endian integer from p at the given offset.
XXH_read32(p, offset) ==
    Or32(Or32(U32(ByteAt(p, offset + 0)),
              Shl32(U32(ByteAt(p, offset + 1)), 8)),
         Or32(Shl32(U32(ByteAt(p, offset + 2)), 16),
              Shl32(U32(ByteAt(p, offset + 3)), 24)))

\* The byte offsets XXH_read32(p, offset) dereferences.
ReadOffsets32(offset) == <<offset + 0, offset + 1, offset + 2, offset + 3>>

\* Mixes input into lane.
XXH32_round(lane, input) ==
    LET l1 == Add32(lane, Mul32(input, PRIME32_2))
        l2 == XXH_rotl32(l1, 13)
    IN  Mul32(l2, PRIME32_1)

\* Mixes all bits to finalize the hash.
XXH32_avalanche(hash) ==
    LET h1 == Xor32(hash, Shr32(hash, 15))
        h2 == Mul32(h1, PRIME32_2)
        h3 == Xor32(h2, Shr32(h2, 13))
        h4 == Mul32(h3, PRIME32_3)
    IN  Xor32(h4, Shr32(h4, 16))

----------------------------------------------------------------------------
(* The state of one call of XXH32                                          *)

NULL == 0

\* No value: a variable that is not in scope, or not yet assigned.
None == <<>>

\* The activation record on entry to XXH32(input, length, seed).  hash is
\* declared without an initialiser and holds whatever the stack held
\* (stale); lane1..lane4 are not in scope before the bulk branch.
\* reads, nbulk, nword, nbyte and phases are ghosts that record what the
\* call has done so far.
EntryFrame(input, length, seed, stale, calls) ==
    [pc        |-> "entry",
     input     |-> input,
     length    |-> length,
     seed      |-> seed,
     hash      |-> stale,
     lanes     |-> None,
     offset    |-> 0,
     remaining |-> 0,
     result    |-> None,
     reads     |-> <<>>,
     nbulk     |-> 0,
     nword     |-> 0,
     nbyte     |-> 0,
     phases    |-> <<>>,
     calls     |-> calls]

Threads == DOMAIN frames

----------------------------------------------------------------------------
(* XXH32, one action per straight-line piece of its body                   *)

\* Dispatch with the null input treated as an empty buffer: the short path
\* is taken and the declared length is still mixed in.
Dispatch_NullAsEmpty(t) ==
    LET f == frames[t] IN
    /\ f.pc = "entry"
    /\ frames' = [frames EXCEPT ![t] =
         IF f.input # NULL /\ f.length >= 16
         THEN [f EXCEPT !.pc = "bulk",
                        !.remaining = f.length,
                        !.offset = 0,
                        !.lanes = <<Add32(Add32(f.seed, PRIME32_1), PRIME32_2),
                                    Add32(f.seed, PRIME32_2),
                                    Add32(f.seed, ZERO32),
                                    Sub32(f.seed, PRIME32_1)>>,
                        !.phases = <<"dispatch", "lanes">>]
         ELSE [f EXCEPT !.pc = "addlen",
                        !.remaining = IF f.input = NULL THEN 0 ELSE f.length,
                        !.offset = 0,
                        !.hash = Add32(f.seed, PRIME32_5),
                        !.phases = <<"dispatch", "short">>]]
    /\ UNCHANGED <<mem, main, noted>>

\* Dispatch with the short path adding to the uninitialised hash
\* (hash += seed + PRIME32_5) instead of assigning it.
Dispatch_StaleHash(t) ==
    LET f == frames[t] IN
    /\ f.pc = "entry"
    /\ frames' = [frames EXCEPT ![t] =
         IF f.input = NULL
         THEN [f EXCEPT !.pc = "done",
                        !.remaining = f.length,
                        !.offset = 0,
                        !.result = XXH32_avalanche(Add32(f.seed, PRIME32_5)),
                        !.phases = <<"dispatch", "avalanche">>]
         ELSE IF f.length >= 16
         THEN [f EXCEPT !.pc = "bulk",
                        !.remaining = f.length,
                        !.offset = 0,
                        !.lanes = <<Add32(Add32(f.seed, PRIME32_1), PRIME32_2),
                                    Add32(f.seed, PRIME32_2),
                                    Add32(f.seed, ZERO32),
                                    Sub32(f.seed, PRIME32_1)>>,
                        !.phases = <<"dispatch", "lanes">>]
         ELSE [f EXCEPT !.pc = "addlen",
                        !.remaining = f.length,
                        !.offset = 0,
                        !.hash = Add32(f.hash, Add32(f.seed, PRIME32_5)),
                        !.phases = <<"dispatch", "short">>]]
    /\ UNCHANGED <<mem, main, noted>>

\* Dispatch with the path split off by one: length > 16 for the bulk path.
Dispatch_Above16(t) ==
    LET f == frames[t] IN
    /\ f.pc = "entry"
    /\ frames' = [frames EXCEPT ![t] =
         IF f.input = NULL
         THEN [f EXCEPT !.pc = "done",
                        !.remaining = f.length,
                        !.offset = 0,
                        !.result = XXH32_avalanche(Add32(f.seed, PRIME32_5)),
                        !.phases = <<"dispatch", "avalanche">>]
         ELSE IF f.length > 16
         THEN [f EXCEPT !.pc = "bulk",
                        !.remaining = f.length,
                        !.offset = 0,
                        !.lanes = <<Add32(Add32(f.seed, PRIME32_1), PRIME32_2),
                                    Add32(f.seed, PRIME32_2),
                                    Add32(f.seed, ZERO32),
                                    Sub32(f.seed, PRIME32_1)>>,
                        !.phases = <<"dispatch", "lanes">>]
         ELSE [f EXCEPT !.pc = "addlen",
                        !.remaining = f.length,
                        !.offset = 0,
                        !.hash = Add32(f.seed, PRIME32_5),
                        !.phases = <<"dispatch", "short">>]]
    /\ UNCHANGED <<mem, main, noted>>

\* Lines 99-115 and 126-129: the declarations, the null check and the
\* choice between the bulk and the short path.
Dispatch(t) ==
    LET f == frames[t] IN
    /\ f.pc = "entry"
    /\ frames' = [frames EXCEPT ![t] =
         IF f.input = NULL
         THEN [f EXCEPT !.pc = "done",
                        !.remaining = f.length,
                        !.offset = 0,
                        !.result = XXH32_avalanche(Add32(f.seed, PRIME32_5)),
                        !.phases = <<"dispatch", "avalanche">>]
         ELSE IF f.length >= 16
         THEN [f EXCEPT !.pc = "bulk",
                        !.remaining = f.length,
                        !.offset = 0,
                        !.lanes = <<Add32(Add32(f.seed, PRIME32_1), PRIME32_2),
                                    Add32(f.seed, PRIME32_2),
                                    Add32(f.seed, ZERO32),
                                    Sub32(f.seed, PRIME32_1)>>,
                        !.phases = <<"dispatch", "lanes">>]
         ELSE [f EXCEPT !.pc = "addlen",
                        !.remaining = f.length,
                        !.offset = 0,
                        !.hash = Add32(f.seed, PRIME32_5),
                        !.phases = <<"dispatch", "short">>]]
    /\ UNCHANGED <<mem, main, noted>>

\* The bulk loop's body with the third and fourth words given to the wrong
\* lanes.
BulkBlock_Swapped(t) ==
    LET f  == frames[t]
        p  == mem[f.input]
        o1 == f.offset
        l1 == XXH32_round(f.lanes[1], XXH_read32(p, o1))
        o2 == o1 + 4
        l2 == XXH32_round(f.lanes[2], XXH_read32(p, o2))
        o3 == o2 + 4
        l4 == XXH32_round(f.lanes[4], XXH_read32(p, o3))
        o4 == o3 + 4
        l3 == XXH32_round(f.lanes[3], XXH_read32(p, o4))
    IN
    /\ f.pc = "bulk"
    /\ f.remaining >= 16
    /\ frames' = [frames EXCEPT ![t] =
         [f EXCEPT !.lanes = <<l1, l2, l3, l4>>,
                   !.offset = o4 + 4,
                   !.remaining = f.remaining - 16,
                   !.reads = f.reads \o ReadOffsets32(o1) \o ReadOffsets32(o2)
                                     \o ReadOffsets32(o3) \o ReadOffsets32(o4),
                   !.nbulk = f.nbulk + 1,
                   !.phases = Append(f.phases, "bulk")]]
    /\ UNCHANGED <<mem, main, noted>>

\* Lines 117-123: one iteration of the bulk loop.
BulkBlock(t) ==
    LET f  == frames[t]
        p  == mem[f.input]
        o1 == f.offset
        l1 == XXH32_round(f.lanes[1], XXH_read32(p, o1))
        o2 == o1 + 4
        l2 == XXH32_round(f.lanes[2], XXH_read32(p, o2))
        o3 == o2 + 4
        l3 == XXH32_round(f.lanes[3], XXH_read32(p, o3))
        o4 == o3 + 4
        l4 == XXH32_round(f.lanes[4], XXH_read32(p, o4))
    IN
    /\ f.pc = "bulk"
    /\ f.remaining >= 16
    /\ frames' = [frames EXCEPT ![t] =
         [f EXCEPT !.lanes = <<l1, l2, l3, l4>>,
                   !.offset = o4 + 4,
                   !.remaining = f.remaining - 16,
                   !.reads = f.reads \o ReadOffsets32(o1) \o ReadOffsets32(o2)
                                     \o ReadOffsets32(o3) \o ReadOffsets32(o4),
                   !.nbulk = f.nbulk + 1,
                   !.phases = Append(f.phases, "bulk")]]
    /\ UNCHANGED <<mem, main, noted>>

\* The four lanes folded into the accumulator (line 125).
CombineLanes(lanes) ==
    Add32(Add32(Add32(XXH_rotl32(lanes[1], 1), XXH_rotl32(lanes[2], 7)),
                XXH_rotl32(lanes[3], 12)),
          XXH_rotl32(lanes[4], 18))

\* Lines 117 and 125: the bulk loop's exit and the combine step.
Combine(t) ==
    LET f == frames[t] IN
    /\ f.pc = "bulk"
    /\ f.remaining < 16
    /\ frames' = [frames EXCEPT ![t] =
         [f EXCEPT !.pc = "addlen",
                   !.hash = CombineLanes(f.lanes),
                   !.phases = Append(f.phases, "combine")]]
    /\ UNCHANGED <<mem, main, noted>>

\* The length step adding the bytes still remaining instead of the length.
AddLength_Remaining(t) ==
    LET f == frames[t] IN
    /\ f.pc = "addlen"
    /\ frames' = [frames EXCEPT ![t] =
         [f EXCEPT !.pc = "word",
                   !.hash = Add32(f.hash, U32(f.remaining)),
                   !.phases = Append(f.phases, "length")]]
    /\ UNCHANGED <<mem, main, noted>>

\* Line 131: hash += (uint32_t) length.
AddLength(t) ==
    LET f == frames[t] IN
    /\ f.pc = "addlen"
    /\ frames' = [frames EXCEPT ![t] =
         [f EXCEPT !.pc = "word",
                   !.hash = Add32(f.hash, U32(f.length)),
                   !.phases = Append(f.phases, "length")]]
    /\ UNCHANGED <<mem, main, noted>>

\* Lines 135-137: one tail word mixed into the accumulator.
MixWord(hash, word) ==
    Mul32(XXH_rotl32(Add32(hash, Mul32(word, PRIME32_3)), 17), PRIME32_4)

\* The word-tail loop's body without offset += 4.
TailWord_NoAdvance(t) ==
    LET f == frames[t]
        p == mem[f.input]
    IN
    /\ f.pc = "word"
    /\ f.remaining >= 4
    /\ frames' = [frames EXCEPT ![t] =
         [f EXCEPT !.hash = MixWord(f.hash, XXH_read32(p, f.offset)),
                   !.remaining = f.remaining - 4,
                   !.reads = f.reads \o ReadOffsets32(f.offset),
                   !.nword = f.nword + 1,
                   !.phases = Append(f.phases, "word")]]
    /\ UNCHANGED <<mem, main, noted>>

\* Lines 134-140: one iteration of the word-tail loop.
TailWord(t) ==
    LET f == frames[t]
        p == mem[f.input]
    IN
    /\ f.pc = "word"
    /\ f.remaining >= 4
    /\ frames' = [frames EXCEPT ![t] =
         [f EXCEPT !.hash = MixWord(f.hash, XXH_read32(p, f.offset)),
                   !.offset = f.offset + 4,
                   !.remaining = f.remaining - 4,
                   !.reads = f.reads \o ReadOffsets32(f.offset),
                   !.nword = f.nword + 1,
                   !.phases = Append(f.phases, "word")]]
    /\ UNCHANGED <<mem, main, noted>>

\* The word-tail loop left while a whole word still remains (remaining < 8).
WordExit_Early(t) ==
    LET f == frames[t] IN
    /\ f.pc = "word"
    /\ f.remaining < 8
    /\ frames' = [frames EXCEPT ![t] = [f EXCEPT !.pc = "byte"]]
    /\ UNCHANGED <<mem, main, noted>>

\* Line 134: the word-tail loop's exit.
WordExit(t) ==
    LET f == frames[t] IN
    /\ f.pc = "word"
    /\ f.remaining < 4
    /\ frames' = [frames EXCEPT ![t] = [f EXCEPT !.pc = "byte"]]
    /\ UNCHANGED <<mem, main, noted>>

\* Lines 143-145: one tail byte mixed into the accumulator.
MixByte(hash, byte) ==
    Mul32(XXH_rotl32(Add32(hash, Mul32(U32(byte), PRIME32_5)), 11), PRIME32_1)

\* Lines 142-148: one iteration of the byte-tail loop.
TailByte(t) ==
    LET f == frames[t]
        p == mem[f.input]
    IN
    /\ f.pc = "byte"
    /\ f.remaining # 0
    /\ frames' = [frames EXCEPT ![t] =
         [f EXCEPT !.hash = MixByte(f.hash, ByteAt(p, f.offset)),
                   !.remaining = f.remaining - 1,
                   !.offset = f.offset + 1,
                   !.reads = Append(f.reads, f.offset),
                   !.nbyte = f.nbyte + 1,
                   !.phases = Append(f.phases, "byte")]]
    /\ UNCHANGED <<mem, main, noted>>

\* The return without the avalanche: return hash.
Finalize_NoAvalanche(t) ==
    LET f == frames[t] IN
    /\ f.pc = "byte"
    /\ f.remaining = 0
    /\ frames' = [frames EXCEPT ![t] =
         [f EXCEPT !.pc = "done",
                   !.result = f.hash]]
    /\ UNCHANGED <<mem, main, noted>>

\* Lines 142 and 149: the byte-tail loop's exit and the return.
Finalize(t) ==
    LET f == frames[t] IN
    /\ f.pc = "byte"
    /\ f.remaining = 0
    /\ frames' = [frames EXCEPT ![t] =
         [f EXCEPT !.pc = "done",
                   !.result = XXH32_avalanche(f.hash),
                   !.phases = Append(f.phases, "avalanche")]]
    /\ UNCHANGED <<mem, main, noted>>

----------------------------------------------------------------------------
(* A single call on arguments drawn from bounded sets                      *)

MaxLen == 47
NBuf == 2

\* The capacity of every caller buffer.
Cap == MaxLen

\* The contents of caller buffer b: all 0xFF for b = 1, a ramp otherwise.
Pattern(b) == [i \in 1..Cap |-> (255 + (b - 1) * (37 * (i - 1) + 11 * b)) % 256]

Buffers == [b \in 1..NBuf |-> Pattern(b)]

\* 0, P1 (the self-test's seeds), 2^32 - 1 - P5 (seed + P5 is 0xFFFFFFFF,
\* so adding any nonzero length wraps) and 0xFFFFFFFF.
Seeds == {ZERO32, PRIME32_1, <<59817, 38990>>, <<65535, 65535>>}

\* Declared lengths passed along with a null input.
NullLengths == {0, 1, 16, 2147483647}

\* What an uninitialised hash may hold.
Stale == {ZERO32, <<57005, 48879>>}

Args ==
    [input: 1..NBuf, length: 0..MaxLen, seed: Seeds]
    \cup [input: {NULL}, length: NullLengths, seed: Seeds]

NoMain == [pc |-> "absent"]

Init ==
    /\ mem = Buffers
    /\ frames \in [{1} -> {EntryFrame(a.input, a.length, a.seed, g, 1) :
                              a \in Args, g \in Stale}]
    /\ main = NoMain
    /\ noted = None

Next ==
    \/ \E t \in Threads : Dispatch(t)
    \/ \E t \in Threads : BulkBlock(t)
    \/ \E t \in Threads : Combine(t)
    \/ \E t \in Threads : AddLength(t)
    \/ \E t \in Threads : TailWord(t)
    \/ \E t \in Threads : WordExit(t)
    \/ \E t \in Threads : TailByte(t)
    \/ \E t \in Threads : Finalize(t)

Spec == Init /\ [][Next]_vars

----------------------------------------------------------------------------
(* Properties of a single call                                             *)

Present(f) == f.input # NULL

\* How many times tag occurs in the sequence s.
Count(s, tag) == Cardinality({i \in 1..Len(s) : s[i] = tag})

\* C2 (null-input law): a call with a null input, whatever length is
\* declared, returns avalanche(seed + P5) straight from the dispatch, having
\* read no byte and run no loop; with the self-test's seeds 0 and P1 that is
\* 0x02CC5D05 and 0x36B78AE7 for every declared length.
C2_NullInputLaw ==
    \A t \in Threads :
        LET f == frames[t] IN
        ~Present(f) =>
            /\ f.pc \in {"entry", "done"}
            /\ f.reads = <<>>
            /\ f.nbulk = 0 /\ f.nword = 0 /\ f.nbyte = 0
            /\ f.pc = "done" =>
                /\ f.result = XXH32_avalanche(Add32(f.seed, PRIME32_5))
                /\ f.seed = ZERO32 => f.result = <<716, 23813>>
                /\ f.seed = PRIME32_1 => f.result = <<14007, 35559>>

C2_Witness ==
    \E t \in Threads :
        /\ frames[t].input = NULL
        /\ frames[t].length = 2147483647
        /\ frames[t].pc = "done"

\* C4 (exact drain within bounds): the byte offsets a call on a present
\* buffer has read so far are 0, 1, ..., offset - 1 in this order, each once
\* and each below length; offset + remaining = length throughout; the bulk
\* loop has read the first 16 * nbulk of them, the word tail the next
\* 4 * nword and the byte tail the rest; at return offset = length and
\* remaining = 0.
C4_ExactDrain ==
    \A t \in Threads :
        LET f == frames[t] IN
        (Present(f) /\ f.pc # "entry") =>
            /\ Len(f.reads) = f.offset
            /\ \A i \in 1..Len(f.reads) :
                   f.reads[i] = i - 1 /\ f.reads[i] < f.length
            /\ f.remaining >= 0
            /\ f.offset + f.remaining = f.length
            /\ f.offset = 16 * f.nbulk + 4 * f.nword + f.nbyte
            /\ f.pc = "done" =>
                /\ f.offset = f.length
                /\ f.remaining = 0
                /\ Len(f.reads) = f.length

C4_Witness ==
    \E t \in Threads :
        /\ Present(frames[t])
        /\ frames[t].pc = "done"
        /\ frames[t].nbulk = 2
        /\ frames[t].nword = 3
        /\ frames[t].nbyte = 3

\* C5 (path split exact at 16): on a present buffer, length >= 16 takes the
\* bulk path: the lanes start as seed+P1+P2, seed+P2, seed, seed-P1
\* (0x24234428, 0x85EBCA77, 0, 0x61C8864F for seed 0), at least one block is
\* consumed before the combine, and the accumulator before the length is
\* added is rotl(lane1,1)+rotl(lane2,7)+rotl(lane3,12)+rotl(lane4,18);
\* length < 16 creates no lane, consumes no block and sets the accumulator
\* to seed + P5.
C5_PathSplit ==
    \A t \in Threads :
        LET f == frames[t] IN
        (Present(f) /\ f.pc # "entry") =>
            IF f.length >= 16
            THEN /\ f.lanes # None
                 /\ Count(f.phases, "short") = 0
                 /\ (f.pc = "bulk" /\ f.nbulk = 0) =>
                        /\ f.lanes = <<Add32(f.seed, Add32(PRIME32_1, PRIME32_2)),
                                       Add32(f.seed, PRIME32_2),
                                       f.seed,
                                       Sub32(f.seed, PRIME32_1)>>
                        /\ f.seed = ZERO32 =>
                               f.lanes = <<<<9251, 17448>>, <<34283, 51831>>,
                                           <<0, 0>>, <<25032, 34383>>>>
                 /\ f.pc # "bulk" => f.nbulk >= 1
                 /\ f.pc = "addlen" =>
                        f.hash = Add32(XXH_rotl32(f.lanes[1], 1),
                                   Add32(XXH_rotl32(f.lanes[2], 7),
                                     Add32(XXH_rotl32(f.lanes[3], 12),
                                           XXH_rotl32(f.lanes[4], 18))))
            ELSE /\ f.lanes = None
                 /\ f.nbulk = 0
                 /\ f.pc # "bulk"
                 /\ Count(f.phases, "lanes") = 0
                 /\ f.pc = "addlen" => f.hash = Add32(f.seed, PRIME32_5)

C5_Witness ==
    \E t \in Threads :
        /\ Present(frames[t])
        /\ frames[t].length = 16
        /\ frames[t].pc = "addlen"
        /\ frames[t].nbulk = 1

\* The accumulator before the length is added: folded from the lanes on
\* the bulk path, seed + P5 on the short path.
PreLength(f) ==
    IF f.length >= 16
    THEN Add32(XXH_rotl32(f.lanes[1], 1),
           Add32(XXH_rotl32(f.lanes[2], 7),
             Add32(XXH_rotl32(f.lanes[3], 12), XXH_rotl32(f.lanes[4], 18))))
    ELSE Add32(f.seed, PRIME32_5)

IterationCounts(f) ==
    /\ f.remaining >= 0
    /\ f.nbulk <= f.length \div 16
    /\ f.pc \in {"addlen", "word", "byte", "done"} =>
           f.nbulk = f.length \div 16
    /\ f.pc = "addlen" => f.remaining = f.length % 16 /\ f.remaining < 16
    /\ f.nword <= (f.length % 16) \div 4
    /\ f.pc \in {"byte", "done"} => f.nword = (f.length % 16) \div 4
    /\ (f.pc = "byte" /\ f.nbyte = 0) =>
           f.remaining = f.length % 4 /\ f.remaining \in 0..3
    /\ f.nbyte <= f.length % 4
    /\ f.pc = "done" =>
           /\ f.nbyte = f.length % 4
           /\ f.remaining = 0
           /\ Count(f.phases, "avalanche") = 1

\* The place of a program point in the function's control flow.
PcRank(pc) ==
    CASE pc = "entry"  -> 0
      [] pc = "bulk"   -> 1
      [] pc = "addlen" -> 2
      [] pc = "word"   -> 3
      [] pc = "byte"   -> 4
      [] pc = "done"   -> 5

\* A bound on the steps a call has left: the bytes not yet consumed plus the
\* program points not yet passed.
Variant(f) == (f.length - f.offset) + (5 - PcRank(f.pc))

\* C7 (termination with exact iteration counts): every call on a present
\* buffer returns, once: each step strictly lowers a non-negative bound on
\* the steps left.  The bulk loop runs
\* floor(length/16) times and leaves remaining = length mod 16, the word tail
\* runs floor((length mod 16)/4) times and leaves remaining in 0..3, the byte
\* tail runs length mod 4 times and leaves remaining = 0; remaining never
\* goes below 0.
C7_Termination ==
    /\ [](\A t \in Threads :
             (Present(frames[t]) /\ frames[t].pc # "entry") =>
                 /\ IterationCounts(frames[t])
                 /\ Variant(frames[t]) >= 0)
    /\ [][\A t \in Threads :
             (Present(frames[t]) /\ frames'[t] # frames[t]) =>
                 /\ Variant(frames'[t]) < Variant(frames[t])
                 /\ Variant(frames'[t]) >= 0]_vars

C7_Witness ==
    \E t \in Threads :
        /\ Present(frames[t])
        /\ frames[t].length = MaxLen
        /\ frames[t].pc = "done"
        /\ frames[t].nbulk >= 2
        /\ frames[t].nword + frames[t].nbyte >= 3

\* The place of a phase in the order of C8.
Rank(tag) ==
    CASE tag = "dispatch"  -> 0
      [] tag = "lanes"     -> 1
      [] tag = "short"     -> 1
      [] tag = "bulk"      -> 2
      [] tag = "combine"   -> 3
      [] tag = "length"    -> 4
      [] tag = "word"      -> 5
      [] tag = "byte"      -> 6
      [] tag = "avalanche" -> 7

\* C8 (phase ordering): the steps of a call occur in the order dispatch,
\* then either the bulk pipeline (lanes, blocks, combine) or the short-input
\* initialisation and never both, then tail words, then tail bytes, then the
\* avalanche; no step of an earlier phase follows one of a later phase; the
\* avalanche is applied exactly once, as the last step before the return, on
\* the null-input path as on the present-input path.
C8_PhaseOrder ==
    \A t \in Threads :
        LET f == frames[t]
            n == Len(f.phases)
        IN
        f.pc # "entry" =>
            /\ n >= 1 /\ f.phases[1] = "dispatch"
            /\ Count(f.phases, "dispatch") = 1
            /\ \A i \in 1..n : \A j \in i..n :
                   Rank(f.phases[i]) <= Rank(f.phases[j])
            /\ Count(f.phases, "short") = 0
                   \/ Count(f.phases, "lanes") + Count(f.phases, "bulk")
                        + Count(f.phases, "combine") = 0
            /\ Count(f.phases, "bulk") > 0 => Count(f.phases, "lanes") = 1
            /\ IF f.pc = "done"
               THEN /\ f.phases[n] = "avalanche"
                    /\ Count(f.phases, "avalanche") = 1
                    /\ f.result # None
                    /\ Present(f) =>
                         /\ Count(f.phases, "short") + Count(f.phases, "combine") = 1
                         /\ Count(f.phases, "length") = 1
                    /\ ~Present(f) => f.phases = <<"dispatch", "avalanche">>
               ELSE /\ Count(f.phases, "avalanche") = 0
                    /\ f.result = None

C8_Witness ==
    \E t \in Threads :
        /\ frames[t].pc = "done"
        /\ Count(frames[t].phases, "bulk") = 2
        /\ Count(frames[t].phases, "word") = 3
        /\ Count(frames[t].phases, "byte") = 3

\* The little-endian 32-bit word at bytes o .. o+3 of p.
LEWord(p, o) == <<p[o + 4] * 256 + p[o + 3], p[o + 2] * 256 + p[o + 1]>>

\* The value lane k starts from.
LaneStart(k, seed) ==
    CASE k = 1 -> Add32(seed, Add32(PRIME32_1, PRIME32_2))
      [] k = 2 -> Add32(seed, PRIME32_2)
      [] k = 3 -> seed
      [] k = 4 -> Sub32(seed, PRIME32_1)

RECURSIVE LaneAfter(_, _, _, _)
\* Lane k after j blocks, from the seed and the words at 16i + 4(k-1), i < j.
LaneAfter(k, seed, p, j) ==
    IF j = 0 THEN LaneStart(k, seed)
    ELSE XXH32_round(LaneAfter(k, seed, p, j - 1),
                     LEWord(p, 16 * (j - 1) + 4 * (k - 1)))

\* C9 (lane independence): after j iterations of the bulk loop lane k is the
\* round function folded, from lane k's start value, over the little-endian
\* words at bytes 16i + 4(k-1) .. 16i + 4(k-1) + 3 for i = 0 .. j-1, and over
\* nothing else: no other word of a block and no other lane enters it.
C9_LaneIndependence ==
    \A t \in Threads :
        LET f == frames[t] IN
        (Present(f) /\ f.pc = "bulk") =>
            \A k \in 1..4 :
                f.lanes[k] = LaneAfter(k, f.seed, mem[f.input], f.nbulk)

C9_Witness ==
    \E t \in Threads :
        /\ frames[t].pc = "bulk"
        /\ frames[t].nbulk = 2
        /\ frames[t].remaining < 16

----------------------------------------------------------------------------
(* Calls that follow and overlap one another                               *)

MaxCalls == 3

\* The arguments of the calls: a short input, a bulk input and a null input.
CallArgs ==
    [input: {2}, length: {5, 21}, seed: {PRIME32_1}]
    \cup [input: {NULL}, length: {5}, seed: {PRIME32_1}]

\* The calls made so far, over all threads.
CallsMade == frames[1].calls + frames[2].calls

InitCalls ==
    /\ mem = Buffers
    /\ frames \in [{1, 2} -> {EntryFrame(a.input, a.length, a.seed, g, 1) :
                                 a \in CallArgs, g \in Stale}]
    /\ main = NoMain
    /\ noted = None

\* What is remembered of a completed call.
Outcome(f) ==
    [input |-> f.input, length |-> f.length, seed |-> f.seed, result |-> f.result]

SameArgs(f, g) ==
    f.input = g.input /\ f.length = g.length /\ f.seed = g.seed

\* Thread t's call has returned and the thread calls XXH32 again: the new
\* activation record takes the place of the old one, so its uninitialised
\* hash holds the old one's last value.
Recall(t) ==
    LET f == frames[t] IN
    /\ f.pc = "done"
    /\ CallsMade < MaxCalls
    /\ \E a \in CallArgs, keep \in BOOLEAN :
        /\ frames' = [frames EXCEPT ![t] =
               EntryFrame(a.input, a.length, a.seed, f.hash, f.calls + 1)]
        /\ noted' = IF noted = None /\ keep THEN Outcome(f) ELSE noted
    /\ UNCHANGED <<mem, main>>

NextCalls ==
    \/ \E t \in Threads : Dispatch(t)
    \/ \E t \in Threads : BulkBlock(t)
    \/ \E t \in Threads : Combine(t)
    \/ \E t \in Threads : AddLength(t)
    \/ \E t \in Threads : TailWord(t)
    \/ \E t \in Threads : WordExit(t)
    \/ \E t \in Threads : TailByte(t)
    \/ \E t \in Threads : Finalize(t)
    \/ \E t \in Threads : Recall(t)

SpecCalls == InitCalls /\ [][NextCalls]_vars

\* C3 (determinism and statelessness): a call that has returned gave the
\* result that any earlier call on the same arguments gave, and the result
\* that a call on the same arguments running on the other thread gave,
\* whatever calls ran before, between or alongside them; the buffers are
\* never written; and a step of a call changes nothing but the locals of
\* that call (its arguments and the other thread's call stay as they are).
C3_Determinism ==
    /\ [](/\ mem = Buffers
          /\ \A t \in Threads :
                 frames[t].pc = "done" =>
                     /\ (noted # None /\ SameArgs(frames[t], noted)) =>
                            frames[t].result = noted.result
                     /\ \A u \in Threads :
                            (frames[u].pc = "done"
                               /\ SameArgs(frames[t], frames[u])) =>
                                frames[t].result = frames[u].result)
    /\ [][/\ mem' = mem
          /\ \A t \in Threads :
                 (frames'[t] # frames[t]) =>
                     /\ \A u \in Threads \ {t} : frames'[u] = frames[u]
                     /\ frames[t].pc # "done" => SameArgs(frames'[t], frames[t])]_vars

C3_Witness ==
    /\ noted # None
    /\ noted.length = 21
    /\ frames[1].pc = "done"
    /\ frames[2].pc = "done"
    /\ frames[1].calls = 2
    /\ SameArgs(frames[1], noted)
    /\ SameArgs(frames[2], noted)
    /\ frames[1].result = noted.result

----------------------------------------------------------------------------
(* The self-test: main and test_sequence                                   *)

TEST_DATA_SIZE == 101

\* The id of main's test_data array in mem.
TestData == 1

\* The eight calls of test_sequence in main, in order.
TestVectors ==
    << [input |-> NULL,     length |-> 0,              seed |-> ZERO32,
        expected |-> <<716, 23813>>],      \* 0x02CC5D05
       [input |-> NULL,     length |-> 0,              seed |-> PRIME32_1,
        expected |-> <<14007, 35559>>],    \* 0x36B78AE7
       [input |-> TestData, length |-> 1,              seed |-> ZERO32,
        expected |-> <<47196, 48869>>],    \* 0xB85CBEE5
       [input |-> TestData, length |-> 1,              seed |-> PRIME32_1,
        expected |-> <<54660, 23908>>],    \* 0xD5845D64
       [input |-> TestData, length |-> 14,             seed |-> ZERO32,
        expected |-> <<58794, 2740>>],     \* 0xE5AA0AB4
       [input |-> TestData, length |-> 14,             seed |-> PRIME32_1,
        expected |-> <<17537, 38173>>],    \* 0x4481951D
       [input |-> TestData, length |-> TEST_DATA_SIZE, seed |-> ZERO32,
        expected |-> <<7962, 42002>>],     \* 0x1F1AA412
       [input |-> TestData, length |-> TEST_DATA_SIZE, seed |-> PRIME32_1,
        expected |-> <<18830, 51426>>] >>  \* 0x498EC8E2

\* main's locals on entry: test_data zeroed, byte_gen = prime, i = 0.
InitSelfTest ==
    /\ mem = [b \in {TestData} |-> [k \in 1..TEST_DATA_SIZE |-> 0]]
    /\ frames = <<>>
    /\ main = [pc |-> "gen", byte_gen |-> PRIME32_1, i |-> 0,
               tcase |-> 1, test_num |-> 0]
    /\ noted = None

\* (uint8_t)(byte_gen >> 24)
HighByte(byte_gen) == Lo(Shr32(byte_gen, 24)) % 256

\* byte_gen multiplied by the prime instead of by itself.
GenStep_TimesPrime ==
    /\ main.pc = "gen"
    /\ main.i < TEST_DATA_SIZE
    /\ mem' = [mem EXCEPT ![TestData][main.i + 1] = HighByte(main.byte_gen)]
    /\ main' = [main EXCEPT !.byte_gen = Mul32(main.byte_gen, PRIME32_1),
                            !.i = main.i + 1]
    /\ UNCHANGED <<frames, noted>>

\* Lines 177-180: one iteration of the generator loop.
GenStep ==
    /\ main.pc = "gen"
    /\ main.i < TEST_DATA_SIZE
    /\ mem' = [mem EXCEPT ![TestData][main.i + 1] = HighByte(main.byte_gen)]
    /\ main' = [main EXCEPT !.byte_gen = Mul32(main.byte_gen, main.byte_gen),
                            !.i = main.i + 1]
    /\ UNCHANGED <<frames, noted>>

\* Line 177: the generator loop's exit.
GenExit ==
    /\ main.pc = "gen"
    /\ main.i >= TEST_DATA_SIZE
    /\ main' = [main EXCEPT !.pc = "test"]
    /\ UNCHANGED <<mem, frames, noted>>

\* Line 162: test_sequence calls XXH32 on the next vector.
TestCall ==
    /\ main.pc = "test"
    /\ \E g \in Stale :
           frames' = [t \in {1} |->
               EntryFrame(TestVectors[main.tcase].input,
                          TestVectors[main.tcase].length,
                          TestVectors[main.tcase].seed, g, main.tcase)]
    /\ main' = [main EXCEPT !.pc = "call"]
    /\ UNCHANGED <<mem, noted>>

\* Lines 163-167 and 191-193: the result is compared with the expected
\* value; a mismatch exits with status 1, the last match prints OK.
TestCheck ==
    /\ main.pc = "call"
    /\ frames[1].pc = "done"
    /\ main' =
         IF frames[1].result # TestVectors[main.tcase].expected
         THEN [main EXCEPT !.pc = "exit1", !.test_num = main.test_num + 1]
         ELSE IF main.tcase = Len(TestVectors)
         THEN [main EXCEPT !.pc = "ok"]
         ELSE [main EXCEPT !.pc = "test", !.tcase = main.tcase + 1]
    /\ frames' = <<>>
    /\ UNCHANGED <<mem, noted>>

NextSelfTest ==
    \/ GenStep
    \/ GenExit
    \/ TestCall
    \/ TestCheck
    \/ \E t \in Threads : Dispatch(t)
    \/ \E t \in Threads : BulkBlock(t)
    \/ \E t \in Threads : Combine(t)
    \/ \E t \in Threads : AddLength(t)
    \/ \E t \in Threads : TailWord(t)
    \/ \E t \in Threads : WordExit(t)
    \/ \E t \in Threads : TailByte(t)
    \/ \E t \in Threads : Finalize(t)

SpecSelfTest == InitSelfTest /\ [][NextSelfTest]_vars

\* C1 (golden vectors): on the generated test_data every one of the eight
\* calls of the self-test returns its expected value, so the self-test never
\* exits with status 1.
C1_GoldenVectors ==
    /\ main.pc # "exit1"
    /\ main.test_num = 0
    /\ (main.pc = "call" /\ frames[1].pc = "done") =>
           frames[1].result = TestVectors[main.tcase].expected
    /\ main.pc = "ok" => main.tcase = 8

C1_Witness == main.pc = "ok" /\ main.tcase = 8

\* C10 (the generator's fixed point): byte_gen is 1 after the 28th squaring
\* and not before, and stays 1; test_data[27] is 0x80 and test_data[28..100]
\* are 0, so the 101-byte vectors hash a buffer ending in 73 zero bytes.
C10_GeneratorFixedPoint ==
    /\ main.i >= 28 => main.byte_gen = <<0, 1>>
    /\ main.i < 28 => main.byte_gen # <<0, 1>>
    /\ main.i = 27 => main.byte_gen = <<32768, 1>>
    /\ main.i >= 28 => mem[TestData][28] = 128
    /\ \A k \in 28..(main.i - 1) : mem[TestData][k + 1] = 0
    /\ main.pc # "gen" =>
           /\ main.i = TEST_DATA_SIZE
           /\ Cardinality({k \in 0..(TEST_DATA_SIZE - 1) :
                               k >= 28 /\ mem[TestData][k + 1] = 0}) = 73
    /\ \A t \in Threads :
           (frames[t].length = TEST_DATA_SIZE /\ frames[t].pc # "entry") =>
               \A k \in 1..Len(frames[t].reads) :
                   frames[t].reads[k] >= 28 =>
                       ByteAt(mem[frames[t].input], frames[t].reads[k]) = 0

C10_Witness ==
    /\ main.pc = "call"
    /\ frames[1].pc = "done"
    /\ frames[1].length = TEST_DATA_SIZE
    /\ main.byte_gen = <<0, 1>>
    /\ mem[TestData][28] = 128
    /\ mem[TestData][TEST_DATA_SIZE] = 0

====
